---- MODULE Spec2Model ----
(***************************************************************************)
(* A model of expressjs-helper: the parameter decorators that record       *)
(* bindings in the metadata store, the route decorators that build the     *)
(* argument-resolving handler, the class decorators (Controller,           *)
(* RestController) that wrap it in a response adapter and register it on   *)
(* the express router, the validation pipes, and the error-handling        *)
(* middleware expressHelperEndpoint.                                       *)
(***************************************************************************)
EXTENDS Integers, Sequences, FiniteSets, TLC

VARIABLES
    phase,              \* where the evaluation of the class definition stands
    arity,              \* descriptor.value.length of the handler method
    decl,               \* the parameter decorators written on the method, by index
    metadata,           \* the reflect-metadata entries of the method
    resolver,           \* what argumentsResolvedHandler captured in its closure
    resolvedArguments,  \* the array argumentsResolvedHandler allocated
    router,             \* controller.stack: the route entries registered
    served,             \* number of requests accepted so far
    rq,                 \* the request being handled
    pcall,              \* one call of AbstractParsePipe.pipe or HttpMethod.of, step by step
    waiting             \* requests suspended at an await while another is handled

vars == <<phase, arity, decl, metadata, resolver, resolvedArguments, router,
          served, rq, pcall, waiting>>

mainVars == <<phase, arity, decl, metadata, resolver, resolvedArguments, router,
              served, rq, waiting>>

(***************************************************************************)
(* JavaScript values.  Every value is a record with a type tag t.          *)
(***************************************************************************)
Undefined == [t |-> "undefined"]
Null == [t |-> "null"]
NaN == [t |-> "NaN"]
Str(s) == [t |-> "string", chars |-> s]
Num(n) == [t |-> "number", int |-> n]
Bool(b) == [t |-> "boolean", bool |-> b]
Obj(id) == [t |-> "object", id |-> id]

\* JavaScript truthiness (ToBoolean), as used by `if (returnValue)`.
Truthy(v) ==
    CASE v.t = "undefined" -> FALSE
      [] v.t = "null" -> FALSE
      [] v.t = "NaN" -> FALSE
      [] v.t = "number" -> v.int # 0
      [] v.t = "boolean" -> v.bool
      [] v.t = "string" -> v.chars # <<>>
      [] OTHER -> TRUE

(***************************************************************************)
(* Errors (src/src/error.ts) and the built-in Error.                       *)
(***************************************************************************)
ExpressHelperError(statusCode, message) ==
    [t |-> "error", class |-> "ExpressHelperError",
     statusCode |-> statusCode, message |-> message]

ValidatePipeError(statusCode, message) ==
    [t |-> "error", class |-> "ValidatePipeError",
     statusCode |-> statusCode, message |-> message]

\* A built-in Error (TypeError, ERR_HTTP_HEADERS_SENT, an error of user code).
JsError(name) == [t |-> "error", class |-> name]

\* Mutant: the subclass is not recognised as an ExpressHelperError.
InstanceOfExpressHelperError_Exact(e) ==
    e.t = "error" /\ e.class = "ExpressHelperError"

\* err instanceof ExpressHelperError: ValidatePipeError extends it.
InstanceOfExpressHelperError(e) ==
    e.t = "error" /\ e.class \in {"ExpressHelperError", "ValidatePipeError"}

\* err instanceof Error
InstanceOfError(e) == e.t = "error"

(***************************************************************************)
(* Strings are sequences of one-character strings.  Number(s) and          *)
(* parseInt(s) follow ECMAScript's StringToNumber and parseInt.            *)
(***************************************************************************)
DecDigits == {"0", "1", "2", "3", "4", "5", "6", "7", "8", "9"}
HexDigits == DecDigits \cup {"a", "b", "c", "d", "e", "f", "A", "B", "C", "D", "E", "F"}
OctDigits == {"0", "1", "2", "3", "4", "5", "6", "7"}
BinDigits == {"0", "1"}
Signs == {"+", "-"}
InfinityChars == <<"I", "n", "f", "i", "n", "i", "t", "y">>

DigitVal(c) ==
    CASE c = "0" -> 0 [] c = "1" -> 1 [] c = "2" -> 2 [] c = "3" -> 3
      [] c = "4" -> 4 [] c = "5" -> 5 [] c = "6" -> 6 [] c = "7" -> 7
      [] c = "8" -> 8 [] c = "9" -> 9
      [] c \in {"a", "A"} -> 10 [] c \in {"b", "B"} -> 11
      [] c \in {"c", "C"} -> 12 [] c \in {"d", "D"} -> 13
      [] c \in {"e", "E"} -> 14 [] c \in {"f", "F"} -> 15

IsWhite(c) == c = " "

RECURSIVE TrimLeft(_)
TrimLeft(s) == IF s # <<>> /\ IsWhite(Head(s)) THEN TrimLeft(Tail(s)) ELSE s

RECURSIVE TrimRight(_)
TrimRight(s) ==
    IF s # <<>> /\ IsWhite(s[Len(s)])
    THEN TrimRight(SubSeq(s, 1, Len(s) - 1))
    ELSE s

\* The number of leading characters of s that lie in D.
RECURSIVE RunLen(_, _)
RunLen(s, D) == IF s # <<>> /\ Head(s) \in D THEN 1 + RunLen(Tail(s), D) ELSE 0

Drop(s, n) == SubSeq(s, n + 1, Len(s))

\* s is empty or an ExponentPart: e, an optional sign, one or more digits.
ExponentOK(s) ==
    \/ s = <<>>
    \/ /\ Head(s) \in {"e", "E"}
       /\ LET r == Tail(s)
              d == IF r # <<>> /\ Head(r) \in Signs THEN Tail(r) ELSE r
          IN  d # <<>> /\ RunLen(d, DecDigits) = Len(d)

\* StrUnsignedDecimalLiteral without Infinity: 4, 4., 4.0, .4, each with an
\* optional exponent.
UnsignedDecimalOK(s) ==
    LET n1 == RunLen(s, DecDigits)
        r1 == Drop(s, n1)
        hasDot == r1 # <<>> /\ Head(r1) = "."
        r2 == IF hasDot THEN Tail(r1) ELSE r1
        n2 == IF hasDot THEN RunLen(r2, DecDigits) ELSE 0
    IN  n1 + n2 >= 1 /\ ExponentOK(Drop(r2, n2))

\* 0x.., 0o.., 0b..: no sign is allowed in front of these.
NonDecimalOK(s) ==
    /\ Len(s) >= 3
    /\ s[1] = "0"
    /\ \/ s[2] \in {"x", "X"} /\ RunLen(Drop(s, 2), HexDigits) = Len(s) - 2
       \/ s[2] \in {"o", "O"} /\ RunLen(Drop(s, 2), OctDigits) = Len(s) - 2
       \/ s[2] \in {"b", "B"} /\ RunLen(Drop(s, 2), BinDigits) = Len(s) - 2

\* Number(s) is not NaN.
StringIsNumeric(chars) ==
    LET s == TrimRight(TrimLeft(chars))
    IN  \/ s = <<>>
        \/ NonDecimalOK(s)
        \/ LET u == IF Head(s) \in Signs THEN Tail(s) ELSE s
           IN  u = InfinityChars \/ UnsignedDecimalOK(u)

\* isNaN(Number(v))
NumberIsNaN(v) ==
    CASE v.t = "string" -> ~StringIsNumeric(v.chars)
      [] v.t = "number" -> FALSE
      [] v.t = "null" -> FALSE
      [] v.t = "boolean" -> FALSE
      [] OTHER -> TRUE

RECURSIVE DigitsValue(_, _)
DigitsValue(ds, radix) ==
    IF ds = <<>> THEN 0
    ELSE DigitsValue(SubSeq(ds, 1, Len(ds) - 1), radix) * radix + DigitVal(ds[Len(ds)])

\* parseInt(s) with no radix argument.
ParseIntChars(chars) ==
    LET s == TrimLeft(chars)
        neg == s # <<>> /\ Head(s) = "-"
        u == IF s # <<>> /\ Head(s) \in Signs THEN Tail(s) ELSE s
        hex == Len(u) >= 2 /\ u[1] = "0" /\ u[2] \in {"x", "X"}
        body == IF hex THEN Drop(u, 2) ELSE u
        n == RunLen(body, IF hex THEN HexDigits ELSE DecDigits)
        mag == DigitsValue(SubSeq(body, 1, n), IF hex THEN 16 ELSE 10)
    IN  IF n = 0 THEN NaN ELSE Num(IF neg THEN 0 - mag ELSE mag)

\* parseInt(v): v is converted to a string first.
ParseInt(v) ==
    CASE v.t = "string" -> ParseIntChars(v.chars)
      [] v.t = "number" -> v
      [] OTHER -> NaN

(***************************************************************************)
(* Validation pipes (src/src/validator.ts).  A pipe is an instance of a    *)
(* subclass of AbstractParsePipe: its validate, its parse, and the status  *)
(* code and message its constructor stored.                                *)
(***************************************************************************)
DEFAULT_FAIL_STATUS_CODE == 400
DEFAULT_RESPONSE_MESSAGE == "Bad Request"

AbstractParsePipe(validate, parse, statusCode, message) ==
    [validate |-> validate, parse |-> parse,
     statusCode |-> statusCode, message |-> message]

ParseEmptyPipe ==
    AbstractParsePipe("ParseDefaultPipe", "ParseDefaultPipe",
                      DEFAULT_FAIL_STATUS_CODE, DEFAULT_RESPONSE_MESSAGE)

ParseIntPipe ==
    AbstractParsePipe("IntPipe", "IntPipe",
                      DEFAULT_FAIL_STATUS_CODE, DEFAULT_RESPONSE_MESSAGE)

\* A pipe of user code: a subclass constructed with its own status and message.
UserPipe == AbstractParsePipe("IntPipe", "ParseDefaultPipe", 422, "Unprocessable Entity")

\* this.validate(value)
Validate(p, v) ==
    CASE p.validate = "ParseDefaultPipe" -> TRUE
      [] p.validate = "IntPipe" -> ~NumberIsNaN(v)

\* this.parse(value)
Parse(p, v) ==
    CASE p.parse = "ParseDefaultPipe" -> v
      [] p.parse = "IntPipe" -> ParseInt(v)

\* Mutant: the error always carries the default status and message.
PipeFailure_Default(p) ==
    [t |-> "error", class |-> "ValidatePipeError",
     statusCode |-> 400, message |-> "Bad Request"]

\* The error pipe() throws when validate fails.
PipeFailure(p) == ValidatePipeError(p.statusCode, p.message)

\* pipe(value): the value returned, or the error thrown.
Returned(v) == [t |-> "returned", value |-> v]
Thrown(e) == [t |-> "thrown", error |-> e]

pipe(p, v) == IF ~Validate(p, v) THEN Thrown(PipeFailure(p)) ELSE Returned(Parse(p, v))

(***************************************************************************)
(* Bounds and the inputs drawn from them.                                  *)
(***************************************************************************)
MaxServed == 2      \* requests accepted, one after the other
MaxStringLen == 3   \* length of the strings handed to a pipe on its own

\* The parameter positions of the handler method: it has up to two parameters.
ParamIndexes == {0, 1}

\* Names of path variables, query keys and cookies.
Keys == {"name", "id"}
CookieKeys == {"sessionId", "key"}

\* Pipes handed to the parameter decorators: a name goes through the
\* identity pipe, an id through an integer pipe.
PipesFor(k) == IF k = "name" THEN {ParseEmptyPipe} ELSE {ParseIntPipe, UserPipe}
BodyPipes == {ParseEmptyPipe, UserPipe}

Url == "/x"
HttpCodes == {201}
ViewsDir == "views"

(***************************************************************************)
(* The metadata store.  Reflect.getMetadata answers undefined for a key    *)
(* never defined.  cookieArgument is the entry argumentsResolvedHandler    *)
(* reads (target, propertyKey); cookieArgumentOfKey is the entry the       *)
(* Cookie decorator defines, with the property key as its target.          *)
(***************************************************************************)
NoMetadata ==
    [requestArgument |-> Undefined,
     responseArgument |-> Undefined,
     bodyArgument |-> Undefined,
     authenticationArgument |-> Undefined,
     pathParamArgument |-> Undefined,
     queryParamArgument |-> Undefined,
     cookieArgument |-> Undefined,
     cookieArgumentOfKey |-> Undefined,
     statusCode |-> Undefined,
     auth |-> Undefined,
     request |-> Undefined]

HandlerArgumentMetadata(parameterIndex, pipeOfParam) ==
    [t |-> "metadata", paramIndex |-> parameterIndex, validatePipe |-> pipeOfParam]

ParamMetadata(value, parameterIndex, pipeOfParam) ==
    [t |-> "metadata", value |-> value, paramIndex |-> parameterIndex,
     validatePipe |-> pipeOfParam]

List(items) == [t |-> "array", items |-> items]

\* existing || [] followed by push
Push(existing, item) ==
    IF existing = Undefined THEN List(<<item>>) ELSE List(Append(existing.items, item))

NoDecorator == [t |-> "none"]

\* A parameter decorator may be applied to parameter i of the method: the
\* method has that parameter and it carries no decorator yet.
Decorable(i) ==
    /\ phase = "parameters"
    /\ i < arity
    /\ decl[i] = NoDecorator

(***************************************************************************)
(* Parameter decorators (src/src/controller.ts).                           *)
(***************************************************************************)
Req(i) ==
    /\ Decorable(i)
    /\ metadata.requestArgument = Undefined
    /\ metadata' = [metadata EXCEPT !.requestArgument = Num(i)]
    /\ decl' = [decl EXCEPT ![i] = [t |-> "Req"]]
    /\ UNCHANGED <<phase, arity, resolver, resolvedArguments, router, served, rq, pcall, waiting>>

Res(i) ==
    /\ Decorable(i)
    /\ metadata.responseArgument = Undefined
    /\ metadata' = [metadata EXCEPT !.responseArgument = Num(i)]
    /\ decl' = [decl EXCEPT ![i] = [t |-> "Res"]]
    /\ UNCHANGED <<phase, arity, resolver, resolvedArguments, router, served, rq, pcall, waiting>>

Body(i, p) ==
    /\ Decorable(i)
    /\ metadata.bodyArgument = Undefined
    /\ metadata' = [metadata EXCEPT !.bodyArgument = HandlerArgumentMetadata(i, p)]
    /\ decl' = [decl EXCEPT ![i] = [t |-> "Body", pipe |-> p]]
    /\ UNCHANGED <<phase, arity, resolver, resolvedArguments, router, served, rq, pcall, waiting>>

Param(i, value, p) ==
    /\ Decorable(i)
    /\ metadata' = [metadata EXCEPT !.pathParamArgument =
                        Push(metadata.pathParamArgument, ParamMetadata(value, i, p))]
    /\ decl' = [decl EXCEPT ![i] = [t |-> "Param", value |-> value, pipe |-> p]]
    /\ UNCHANGED <<phase, arity, resolver, resolvedArguments, router, served, rq, pcall, waiting>>

Query(i, value, p) ==
    /\ Decorable(i)
    /\ metadata' = [metadata EXCEPT !.queryParamArgument =
                        Push(metadata.queryParamArgument, ParamMetadata(value, i, p))]
    /\ decl' = [decl EXCEPT ![i] = [t |-> "Query", value |-> value, pipe |-> p]]
    /\ UNCHANGED <<phase, arity, resolver, resolvedArguments, router, served, rq, pcall, waiting>>

AuthenticatedUser(i) ==
    /\ Decorable(i)
    /\ metadata.authenticationArgument = Undefined
    /\ metadata' = [metadata EXCEPT !.authenticationArgument = Num(i)]
    /\ decl' = [decl EXCEPT ![i] = [t |-> "AuthenticatedUser"]]
    /\ UNCHANGED <<phase, arity, resolver, resolvedArguments, router, served, rq, pcall, waiting>>

\* Cookie calls Reflect.defineMetadata(key, value, propertyKey): the property
\* key, a string, stands where the target object belongs.  reflect-metadata
\* throws a TypeError for a target that is not an object, which ends the
\* evaluation of the class definition; a store that accepted the call would
\* file the entry under the property key, where getMetadata(key, target,
\* propertyKey) does not look.  Both outcomes are kept.
Cookie(i, value, p) ==
    /\ Decorable(i)
    /\ decl' = [decl EXCEPT ![i] = [t |-> "Cookie", value |-> value, pipe |-> p]]
    /\ \/ /\ phase' = "failed"
          /\ UNCHANGED metadata
       \/ /\ metadata' = [metadata EXCEPT !.cookieArgumentOfKey =
                              ParamMetadata(value, i, p)]
          /\ UNCHANGED phase
    /\ UNCHANGED <<arity, resolver, resolvedArguments, router, served, rq, pcall, waiting>>

(***************************************************************************)
(* HTTP methods (src/src/http.ts).                                         *)
(***************************************************************************)
\* enum HttpMethod
HttpMethod ==
    {"GET", "PUT", "PATCH", "POST", "DELETE", "HEAD", "CONNECT", "OPTIONS", "TRACE"}

\* HttpMethod.values()
HttpMethodValues == <<"GET", "POST", "PATCH", "DELETE", "PUT">>

(***************************************************************************)
(* argumentsResolvedHandler: what it reads from the metadata store when    *)
(* the route decorator runs, and the array it allocates once.              *)
(***************************************************************************)
argumentsResolvedHandler(md) ==
    [requestMetaData |-> md.requestArgument,
     responseMetaData |-> md.responseArgument,
     bodyMetaData |-> md.bodyArgument,
     authenticationMetaData |-> md.authenticationArgument,
     cookieMetaData |-> md.cookieArgument,
     pathParamArgumentMetadata |-> md.pathParamArgument,
     queryParamArgumentMetadata |-> md.queryParamArgument]

\* new Array(n): n empty slots, which read as undefined.  undefinedProperty is
\* the property named "undefined" that an assignment a[undefined] = v creates.
NewArray(n) ==
    [t |-> "array", slots |-> [k \in 1 .. n |-> Undefined],
     undefinedProperty |-> Undefined]

\* a[index] = v, for an index that is a number or undefined.
ArraySet(a, index, v) ==
    IF index.t = "number"
    THEN IF index.int < Len(a.slots)
         THEN [a EXCEPT !.slots[index.int + 1] = v]
         ELSE [a EXCEPT !.slots =
                   [k \in 1 .. (index.int + 1) |->
                       IF k = index.int + 1 THEN v
                       ELSE IF k <= Len(a.slots) THEN a.slots[k] ELSE Undefined]]
    ELSE [a EXCEPT !.undefinedProperty = v]

\* a[index]
ArrayGet(a, index) ==
    IF index.t = "number"
    THEN IF index.int < Len(a.slots) THEN a.slots[index.int + 1] ELSE Undefined
    ELSE a.undefinedProperty

(***************************************************************************)
(* Method decorators.                                                      *)
(***************************************************************************)
MethodDecorable == phase \in {"parameters", "method"}

RequestMetadata(url, methods) ==
    [t |-> "metadata", url |-> url, methods |-> methods]

\* The body shared by Get, Post, ... and RequestMapping.
RouteDecorator(url, methods) ==
    /\ MethodDecorable
    /\ metadata.request = Undefined
    /\ resolver' = argumentsResolvedHandler(metadata)
    /\ resolvedArguments' = NewArray(arity)
    /\ metadata' = [metadata EXCEPT !.request = RequestMetadata(url, methods)]
    /\ phase' = "method"
    /\ UNCHANGED <<arity, decl, router, served, rq, pcall, waiting>>

RequestMapping(url) == RouteDecorator(url, HttpMethodValues)

Get(url) == RouteDecorator(url, <<"GET">>)

\* Mutant: Post copied from Get with the method left as it was.
Post_Get(url) == RouteDecorator(url, <<"GET">>)

Post(url) == RouteDecorator(url, <<"POST">>)

Delete(url) == RouteDecorator(url, <<"DELETE">>)

Put(url) == RouteDecorator(url, <<"PUT">>)

Patch(url) == RouteDecorator(url, <<"PATCH">>)

\* The decorator Head (the name Head is the head of a sequence here).
HeadMapping(url) == RouteDecorator(url, <<"HEAD">>)

CONNECT(url) == RouteDecorator(url, <<"CONNECT">>)

Options(url) == RouteDecorator(url, <<"OPTIONS">>)

Trace(url) == RouteDecorator(url, <<"TRACE">>)

HttpCode(code) ==
    /\ MethodDecorable
    /\ metadata.statusCode = Undefined
    /\ metadata' = [metadata EXCEPT !.statusCode = Num(code)]
    /\ phase' = "method"
    /\ UNCHANGED <<arity, decl, resolver, resolvedArguments, router, served, rq, pcall, waiting>>

UseGuard ==
    /\ MethodDecorable
    /\ metadata.auth = Undefined
    /\ metadata' = [metadata EXCEPT !.auth = [t |-> "metadata", authMiddleware |-> "guard"]]
    /\ phase' = "method"
    /\ UNCHANGED <<arity, decl, resolver, resolvedArguments, router, served, rq, pcall, waiting>>

(***************************************************************************)
(* Class decorators: one router entry for each method of the route.        *)
(***************************************************************************)
\* Mutant: the status override is not read.
StatusCodeOf_Default(md) == 200

\* Reflect.getMetadata(statusCodeMetadataKey, ...) || 200
StatusCodeOf(md) == IF Truthy(md.statusCode) THEN md.statusCode.int ELSE 200

\* Mutant: the guard middleware is left out of the registration.
RouteEntry_NoAuth(m, md, adapter) ==
    [method |-> m, path |-> md.request.url, auth |-> Undefined,
     adapter |-> adapter, statusCode |-> StatusCodeOf(md)]

RouteEntry(m, md, adapter) ==
    [method |-> m, path |-> md.request.url, auth |-> md.auth,
     adapter |-> adapter, statusCode |-> StatusCodeOf(md)]

\* methods.forEach((m) => controller[m.toLowerCase()](url, ...))
RECURSIVE RegisterAll(_, _, _, _)
RegisterAll(stack, methods, md, adapter) ==
    IF methods = <<>> THEN stack
    ELSE RegisterAll(Append(stack, RouteEntry(Head(methods), md, adapter)),
                     Tail(methods), md, adapter)

ClassDecorator(adapter) ==
    /\ MethodDecorable
    /\ router' = IF metadata.request = Undefined
                 THEN router
                 ELSE RegisterAll(router, metadata.request.methods, metadata, adapter)
    /\ phase' = "registered"
    /\ UNCHANGED <<arity, decl, metadata, resolver, resolvedArguments, served, rq, pcall, waiting>>

Controller == ClassDecorator("Controller")

RestController == ClassDecorator("RestController")

(***************************************************************************)
(* The closure argumentsResolvedHandler returns, statement by statement.   *)
(* A resolution carries the array and the error thrown, if any; once an    *)
(* error is thrown the statements that follow do not run.                  *)
(***************************************************************************)
Resolution(a) == [args |-> a, thrown |-> Undefined]

Throw(s, e) == [s EXCEPT !.thrown = e]

\* a[index] = p.pipe(v): the array is written only if pipe returns.
Place(s, index, result) ==
    IF result.t = "thrown"
    THEN Throw(s, result.error)
    ELSE [s EXCEPT !.args = ArraySet(s.args, index, result.value)]

ResolveRequest(c, s, req) ==
    IF c.requestMetaData # Undefined
    THEN [s EXCEPT !.args = ArraySet(s.args, c.requestMetaData, [t |-> "request", id |-> req.id])]
    ELSE s

\* Mutant: the request is placed where the response belongs.
ResolveResponse_Request(c, s, req) ==
    IF c.responseMetaData # Undefined
    THEN [s EXCEPT !.args = ArraySet(s.args, c.responseMetaData, [t |-> "request", id |-> req.id])]
    ELSE s

ResolveResponse(c, s, req) ==
    IF c.responseMetaData # Undefined
    THEN [s EXCEPT !.args = ArraySet(s.args, c.responseMetaData, [t |-> "response", id |-> req.id])]
    ELSE s

ResolveBody(c, s, req) ==
    IF c.bodyMetaData # Undefined
    THEN Place(s, Num(c.bodyMetaData.paramIndex), pipe(c.bodyMetaData.validatePipe, req.body))
    ELSE s

\* Mutant: a request without a principal is refused.
ResolveAuthentication_Required(c, s, req) ==
    IF s.thrown # Undefined THEN s
    ELSE IF req.user = Undefined THEN Throw(s, ExpressHelperError(401, "Unauthorized"))
    ELSE [s EXCEPT !.args = ArraySet(s.args, c.authenticationMetaData, req.user)]

\* Mutant: without an AuthenticatedUser binding the principal goes to the
\* first parameter.
ResolveAuthentication_First(c, s, req) ==
    IF s.thrown # Undefined THEN s
    ELSE [s EXCEPT !.args = ArraySet(s.args,
                                     IF c.authenticationMetaData = Undefined THEN Num(0)
                                     ELSE c.authenticationMetaData,
                                     req.user)]

\* The test reads authenticationMetadataKey, the symbol, which is never
\* undefined: the assignment always runs.
ResolveAuthentication(c, s, req) ==
    IF s.thrown # Undefined THEN s
    ELSE [s EXCEPT !.args = ArraySet(s.args, c.authenticationMetaData, req.user)]

\* Mutant: the raw value is placed without going through the pipe.
RECURSIVE ResolveEach_Raw(_, _, _)
ResolveEach_Raw(items, s, source) ==
    IF items = <<>> \/ s.thrown # Undefined THEN s
    ELSE LET m == Head(items)
             param == source[m.value]
         IN  ResolveEach_Raw(Tail(items),
                             IF param = Undefined
                             THEN Throw(s, ExpressHelperError(400, "Bad Request"))
                             ELSE Place(s, Num(m.paramIndex), Returned(param)),
                             source)

\* Mutant: an absent name is not checked for before the pipe runs.
RECURSIVE ResolveEach_NoCheck(_, _, _)
ResolveEach_NoCheck(items, s, source) ==
    IF items = <<>> \/ s.thrown # Undefined THEN s
    ELSE LET m == Head(items)
         IN  ResolveEach_NoCheck(Tail(items),
                                 Place(s, Num(m.paramIndex),
                                       pipe(m.validatePipe, source[m.value])),
                                 source)

\* Mutant: a binding whose name is absent is skipped, its slot left as it is.
RECURSIVE ResolveEach_Skip(_, _, _)
ResolveEach_Skip(items, s, source) ==
    IF items = <<>> \/ s.thrown # Undefined THEN s
    ELSE LET m == Head(items)
             param == source[m.value]
         IN  ResolveEach_Skip(Tail(items),
                              IF param = Undefined THEN s
                              ELSE Place(s, Num(m.paramIndex), pipe(m.validatePipe, param)),
                              source)

\* list.forEach over the path or query bindings, reading from source.
RECURSIVE ResolveEach(_, _, _)
ResolveEach(items, s, source) ==
    IF items = <<>> \/ s.thrown # Undefined THEN s
    ELSE LET m == Head(items)
             param == source[m.value]
         IN  ResolveEach(Tail(items),
                         IF param = Undefined
                         THEN Throw(s, ExpressHelperError(400, "Bad Request"))
                         ELSE Place(s, Num(m.paramIndex), pipe(m.validatePipe, param)),
                         source)

ResolvePathParams(c, s, req) ==
    IF s.thrown = Undefined /\ c.pathParamArgumentMetadata # Undefined
    THEN ResolveEach(c.pathParamArgumentMetadata.items, s, req.params)
    ELSE s

ResolveQueryParams(c, s, req) ==
    IF s.thrown = Undefined /\ c.queryParamArgumentMetadata # Undefined
    THEN ResolveEach(c.queryParamArgumentMetadata.items, s, req.query)
    ELSE s

\* rawCookies.forEach: a segment is its key and the pieces after each "=";
\* [key, val] = c.split("=") keeps the first piece, or undefined.
RECURSIVE ResolveRawCookies(_, _, _)
ResolveRawCookies(segments, c, s) ==
    IF segments = <<>> \/ s.thrown # Undefined THEN s
    ELSE LET seg == Head(segments)
             val == IF seg.pieces = <<>> THEN Undefined ELSE Str(Head(seg.pieces))
         IN  ResolveRawCookies(Tail(segments), c,
                 IF seg.key # c.cookieMetaData.value THEN s
                 ELSE IF c.bodyMetaData = Undefined THEN Throw(s, JsError("TypeError"))
                 ELSE Place(s, Num(c.bodyMetaData.paramIndex),
                            pipe(c.cookieMetaData.validatePipe, val)))

\* The cookie statement writes to, and tests, bodyMetaData.paramIndex; with
\* no Body binding reading bodyMetaData.paramIndex throws a TypeError.
ResolveCookie(c, s, req) ==
    IF s.thrown # Undefined \/ c.cookieMetaData = Undefined THEN s
    ELSE IF req.cookies # Undefined
    THEN IF c.bodyMetaData = Undefined THEN Throw(s, JsError("TypeError"))
         ELSE Place(s, Num(c.bodyMetaData.paramIndex),
                    pipe(c.cookieMetaData.validatePipe, req.cookies.jar[c.cookieMetaData.value]))
    ELSE IF req.cookieHeader # Undefined /\ req.cookieHeader.segments # <<>>
    THEN LET s1 == ResolveRawCookies(req.cookieHeader.segments, c, s)
         IN  IF s1.thrown # Undefined THEN s1
             ELSE IF c.bodyMetaData = Undefined THEN Throw(s1, JsError("TypeError"))
             ELSE IF ArrayGet(s1.args, Num(c.bodyMetaData.paramIndex)) = Undefined
                  THEN Throw(s1, ExpressHelperError(400, "Bad Request"))
                  ELSE s1
    ELSE s

\* The whole closure up to the call of the handler method.
Resolve(c, a, req) ==
    LET s1 == ResolveRequest(c, Resolution(a), req)
        s2 == ResolveResponse(c, s1, req)
        s3 == ResolveBody(c, s2, req)
        s4 == ResolveAuthentication(c, s3, req)
        s5 == ResolvePathParams(c, s4, req)
        s6 == ResolveQueryParams(c, s5, req)
    IN  ResolveCookie(c, s6, req)

(***************************************************************************)
(* Requests.  A request carries a value only for the names the method's    *)
(* decorators bind; the resolver reads nothing else.                       *)
(***************************************************************************)
ParamValues == {Str(<<"f", "o", "o">>), Str(<<"4">>)}
BodyValues == {Obj("body"), Str(<<"4">>)}
Principals == {Obj("user")}
RequestMethods == {"GET"}
ViewName == <<"i", "n", "d", "e", "x", ".", "h", "t", "m", "l">>

Declared(kind) == {i \in ParamIndexes : i < arity /\ decl[i].t = kind}

BoundKeys(kind) == {decl[i].value : i \in Declared(kind)}

\* request.params or request.query: a value or undefined for every name.
ParamMaps(kind) ==
    {f \in [Keys -> ParamValues \cup {Undefined}] :
        \A k \in Keys \ BoundKeys(kind) : f[k] = Undefined}

CookieString(k) == IF k = "sessionId" THEN <<"a", "b", "c">> ELSE <<"x", "y", "z">>

Segment(k) == [key |-> k, pieces |-> <<CookieString(k)>>]

CookieHeader(segments) == [t |-> "header", segments |-> segments]

CookieJar(present) ==
    [t |-> "jar",
     jar |-> [k \in CookieKeys |-> IF k \in present THEN Str(CookieString(k)) ELSE Undefined]]

\* request.cookies (set by a cookie-parsing middleware, if one is installed)
\* and request.headers.cookie.
CookieInputs ==
    {[cookies |-> Undefined, cookieHeader |-> Undefined],
     [cookies |-> Undefined,
      cookieHeader |-> CookieHeader(<<Segment("sessionId"), Segment("key")>>)],
     [cookies |-> Undefined, cookieHeader |-> CookieHeader(<<Segment("key")>>)],
     [cookies |-> CookieJar(CookieKeys),
      cookieHeader |-> CookieHeader(<<Segment("sessionId"), Segment("key")>>)],
     [cookies |-> CookieJar({}), cookieHeader |-> Undefined]}

NoCookies == [cookies |-> Undefined, cookieHeader |-> Undefined]

\* What the handler method does once it is called: it returns a value or
\* throws, and it may have sent the response itself through its Res parameter.
HandlerReturns ==
    {Undefined, Null, Num(0), Bool(FALSE), Str(<<>>), Str(ViewName), Obj("a")}

HandlerThrows ==
    {ExpressHelperError(404, "Not Found"), JsError("Error"), Str(<<"o", "o", "p", "s">>)}

HandlerOutcomes == {Returned(v) : v \in HandlerReturns} \cup {Thrown(e) : e \in HandlerThrows}

NoOutcome == [t |-> "none"]

IdleRequest == [pc |-> "idle"]

\* A call that sends the response: status, and json / send / sendFile.
Call(by, status, kind, body) ==
    [by |-> by, status |-> status, kind |-> kind, body |-> body]

HeadersSent(r) == r.calls # <<>>

HeadersSentError == JsError("ERR_HTTP_HEADERS_SENT")

\* The first route entry of the stack that matches, or undefined.
RECURSIVE Match(_, _, _)
Match(stack, method, path) ==
    IF stack = <<>> THEN Undefined
    ELSE IF Head(stack).method = method /\ Head(stack).path = path THEN Head(stack)
    ELSE Match(Tail(stack), method, path)

\* A request arrives and the router dispatches it.  No matching entry: the
\* framework answers 404.
ArriveWith(methods) ==
    /\ phase \in {"registered", "failed"}
    /\ rq.pc = "idle"
    /\ served < MaxServed
    /\ served' = served + 1
    /\ \E method \in methods,
          params \in ParamMaps("Param"),
          query \in ParamMaps("Query"),
          body \in (IF Declared("Body") # {} THEN BodyValues ELSE {Undefined}),
          ck \in (IF Declared("Cookie") # {} THEN CookieInputs ELSE {NoCookies}) :
          LET route == Match(router, method, Url)
          IN  rq' = [pc |-> IF route = Undefined THEN "done"
                            ELSE IF route.auth # Undefined THEN "guard"
                            ELSE "adapter",
                     id |-> served + 1,
                     method |-> method,
                     params |-> params,
                     query |-> query,
                     body |-> body,
                     cookies |-> ck.cookies,
                     cookieHeader |-> ck.cookieHeader,
                     user |-> Undefined,
                     route |-> route,
                     invoked |-> FALSE,
                     args |-> <<>>,
                     outcome |-> NoOutcome,
                     calls |-> IF route = Undefined
                               THEN <<Call("router", 404, "send", Undefined)>>
                               ELSE <<>>,
                     next |-> <<>>,
                     logged |-> FALSE,
                     escaped |-> Undefined]
    /\ UNCHANGED <<phase, arity, decl, metadata, resolver, resolvedArguments, router,
                   pcall, waiting>>

\* A GET request.
Arrive == ArriveWith(RequestMethods)

\* A request with any method of the enumeration.
ArriveAny == ArriveWith(HttpMethod)

\* The guard middleware authenticates, may set request.user, and calls next().
GuardNext ==
    /\ rq.pc = "guard"
    /\ \E principal \in Principals :
          rq' = [rq EXCEPT !.user = principal, !.pc = "adapter"]
    /\ UNCHANGED <<phase, arity, decl, metadata, resolver, resolvedArguments, router,
                   served, pcall, waiting>>

\* The guard refuses: it answers itself and does not call next().
GuardRefuse ==
    /\ rq.pc = "guard"
    /\ rq' = [rq EXCEPT !.calls = <<Call("guard", 401, "send", Undefined)>>, !.pc = "done"]
    /\ UNCHANGED <<phase, arity, decl, metadata, resolver, resolvedArguments, router,
                   served, pcall, waiting>>

\* The adapter calls metadata.controller: the resolver runs and, unless it
\* throws, calls the handler method with the array spread into arguments.
Invoke ==
    /\ rq.pc = "adapter"
    /\ LET s == Resolve(resolver, resolvedArguments, rq)
       IN  /\ resolvedArguments' = s.args
           /\ IF s.thrown # Undefined
              THEN rq' = [rq EXCEPT !.outcome = Thrown(s.thrown), !.pc = "awaiting"]
              ELSE \E outcome \in HandlerOutcomes,
                      sends \in (IF Declared("Res") # {} THEN BOOLEAN ELSE {FALSE}) :
                      rq' = [rq EXCEPT
                                !.invoked = TRUE,
                                !.args = s.args.slots,
                                !.outcome = outcome,
                                !.calls = IF sends
                                          THEN <<Call("handler", 200, "send", Str(<<"o", "k">>))>>
                                          ELSE <<>>,
                                !.pc = "awaiting"]
    /\ UNCHANGED <<phase, arity, decl, metadata, resolver, router, served, pcall, waiting>>

\* Mutant: the catch block is empty, the error goes nowhere.
Next1_Swallow(r, e) == [r EXCEPT !.pc = "done"]

\* next(e)
Next1(r, e) == [r EXCEPT !.next = Append(r.next, e), !.pc = "translator"]

\* A call that sends the response; it throws when the response was sent
\* already, and the adapter's catch hands that error to next.
SendOrFail(r, call) ==
    IF HeadersSent(r)
    THEN Next1([r EXCEPT !.calls = Append(r.calls, call)], HeadersSentError)
    ELSE [r EXCEPT !.calls = Append(r.calls, call), !.pc = "done"]

\* Mutant: a handler that returns nothing is answered with JSON.
RestAdapter_Json(r) ==
    IF r.outcome.t = "thrown" THEN Next1(r, r.outcome.error)
    ELSE SendOrFail(r, Call("adapter", r.route.statusCode, "json", r.outcome.value))

\* RestController's handler after the await.
RestAdapter(r) ==
    IF r.outcome.t = "thrown" THEN Next1(r, r.outcome.error)
    ELSE IF Truthy(r.outcome.value)
    THEN SendOrFail(r, Call("adapter", r.route.statusCode, "json", r.outcome.value))
    ELSE SendOrFail(r, Call("adapter", 204, "send", Undefined))

\* path.join(request.app.get("views"), returnView)
ViewPath(returnView) == [t |-> "path", root |-> ViewsDir, name |-> returnView.chars]

\* Mutant: the type of the returned value is not checked.
ViewAdapter_NoCheck(r) ==
    IF r.outcome.t = "thrown" THEN Next1(r, r.outcome.error)
    ELSE SendOrFail(r, Call("adapter", r.route.statusCode, "sendFile",
                            [t |-> "path", root |-> ViewsDir, name |-> <<>>]))

\* Controller's replacement method after the await.
ViewAdapter(r) ==
    IF r.outcome.t = "thrown" THEN Next1(r, r.outcome.error)
    ELSE IF r.outcome.value.t = "string"
    THEN SendOrFail(r, Call("adapter", r.route.statusCode, "sendFile", ViewPath(r.outcome.value)))
    ELSE Next1(r, ExpressHelperError(400, "Invalid View Path Type"))

Resume ==
    /\ rq.pc = "awaiting"
    /\ rq' = IF rq.route.adapter = "RestController" THEN RestAdapter(rq) ELSE ViewAdapter(rq)
    /\ UNCHANGED <<phase, arity, decl, metadata, resolver, resolvedArguments, router,
                   served, pcall, waiting>>

\* Mutant: instanceof Error is tested first, so a domain error, which is an
\* Error too, is answered as a generic failure.
expressHelperEndpoint_ErrorFirst(r, err) ==
    IF InstanceOfError(err)
    THEN [r EXCEPT
             !.logged = TRUE,
             !.calls = Append(r.calls, Call("endpoint", 500, "send", Undefined)),
             !.escaped = IF HeadersSent(r) THEN HeadersSentError ELSE err,
             !.pc = "done"]
    ELSE [r EXCEPT !.pc = "done"]

\* The error-handling middleware.  A thrown error leaves it (escaped): the
\* one it rethrows, or the one a send on a sent response throws.
expressHelperEndpoint(r, err) ==
    IF InstanceOfExpressHelperError(err)
    THEN [r EXCEPT
             !.calls = Append(r.calls, Call("endpoint", err.statusCode, "json",
                                            [t |-> "object", message |-> err.message])),
             !.escaped = IF HeadersSent(r) THEN HeadersSentError ELSE Undefined,
             !.pc = "done"]
    ELSE IF InstanceOfError(err)
    THEN [r EXCEPT
             !.logged = TRUE,
             !.calls = Append(r.calls, Call("endpoint", 500, "send", Undefined)),
             !.escaped = IF HeadersSent(r) THEN HeadersSentError ELSE err,
             !.pc = "done"]
    ELSE [r EXCEPT !.pc = "done"]

Endpoint ==
    /\ rq.pc = "translator"
    /\ rq' = expressHelperEndpoint(rq, rq.next[Len(rq.next)])
    /\ UNCHANGED <<phase, arity, decl, metadata, resolver, resolvedArguments, router,
                   served, pcall, waiting>>

\* The request is over; the next one may arrive.
Finish ==
    /\ rq.pc = "done"
    /\ rq' = IdleRequest
    /\ UNCHANGED <<phase, arity, decl, metadata, resolver, resolvedArguments, router,
                   served, pcall, waiting>>

(***************************************************************************)
(* The specification of the controller: the class definition is evaluated  *)
(* (parameter decorators, method decorators, class decorator), then        *)
(* requests are served.                                                    *)
(***************************************************************************)
NoCall == [pc |-> "idle"]

InitController(n) ==
    /\ phase = "parameters"
    /\ arity = n
    /\ decl = [i \in ParamIndexes |-> NoDecorator]
    /\ metadata = NoMetadata
    /\ resolver = Undefined
    /\ resolvedArguments = Undefined
    /\ router = <<>>
    /\ served = 0
    /\ rq = IdleRequest
    /\ waiting = <<>>

Init ==
    /\ \E n \in 0 .. Cardinality(ParamIndexes) : InitController(n)
    /\ pcall = NoCall

Next ==
    \/ \E i \in ParamIndexes : Req(i)
    \/ \E i \in ParamIndexes : Res(i)
    \/ \E i \in ParamIndexes, p \in BodyPipes : Body(i, p)
    \/ \E i \in ParamIndexes, k \in Keys : \E p \in PipesFor(k) : Param(i, k, p)
    \/ \E i \in ParamIndexes, k \in Keys : \E p \in PipesFor(k) : Query(i, k, p)
    \/ \E i \in ParamIndexes : AuthenticatedUser(i)
    \/ \E i \in ParamIndexes, k \in CookieKeys : Cookie(i, k, ParseEmptyPipe)
    \/ Get(Url)
    \/ \E code \in HttpCodes : HttpCode(code)
    \/ UseGuard
    \/ Controller
    \/ RestController
    \/ Arrive
    \/ GuardNext
    \/ GuardRefuse
    \/ Invoke
    \/ Resume
    \/ Endpoint
    \/ Finish

Spec == Init /\ [][Next]_vars

(***************************************************************************)
(* Requests in flight together.  The adapter awaits the promise of the     *)
(* resolved handler, and a guard may await its own work: while one request *)
(* waits there the event loop takes up another.  The resolving closure     *)
(* itself holds no await before it calls the handler method, so Invoke     *)
(* runs without interruption.                                              *)
(* Query bindings are left to Spec: they run through the same forEach as  *)
(* the path bindings.                                                      *)
(***************************************************************************)
Suspend ==
    /\ rq.pc \in {"guard", "awaiting"}
    /\ waiting = <<>>
    /\ waiting' = <<rq>>
    /\ rq' = IdleRequest
    /\ UNCHANGED <<phase, arity, decl, metadata, resolver, resolvedArguments, router,
                   served, pcall>>

Continue ==
    /\ rq.pc = "idle"
    /\ waiting # <<>>
    /\ rq' = Head(waiting)
    /\ waiting' = Tail(waiting)
    /\ UNCHANGED <<phase, arity, decl, metadata, resolver, resolvedArguments, router,
                   served, pcall>>

NextInterleaved ==
    \/ \E i \in ParamIndexes : Req(i)
    \/ \E i \in ParamIndexes, p \in BodyPipes : Body(i, p)
    \/ \E i \in ParamIndexes, k \in Keys : \E p \in PipesFor(k) : Param(i, k, p)
    \/ \E i \in ParamIndexes : AuthenticatedUser(i)
    \/ Get(Url)
    \/ UseGuard
    \/ RestController
    \/ Arrive
    \/ GuardNext
    \/ GuardRefuse
    \/ Invoke
    \/ Resume
    \/ Endpoint
    \/ Finish
    \/ Suspend
    \/ Continue

SpecInterleaved == Init /\ [][NextInterleaved]_vars

(***************************************************************************)
(* The route decorators of every HTTP method on a handler method without   *)
(* parameters, and requests of every method.                               *)
(***************************************************************************)
RouteHttpCodes == {0, 201}

InitRoutes ==
    /\ InitController(0)
    /\ pcall = NoCall

NextRoutes ==
    \/ RequestMapping(Url)
    \/ Get(Url)
    \/ Post(Url)
    \/ Delete(Url)
    \/ Put(Url)
    \/ Patch(Url)
    \/ HeadMapping(Url)
    \/ CONNECT(Url)
    \/ Options(Url)
    \/ Trace(Url)
    \/ \E code \in RouteHttpCodes : HttpCode(code)
    \/ Controller
    \/ RestController
    \/ ArriveAny
    \/ Invoke
    \/ Resume
    \/ Endpoint
    \/ Finish

SpecRoutes == InitRoutes /\ [][NextRoutes]_vars

(***************************************************************************)
(* One call of AbstractParsePipe.pipe on its own, statement by statement.  *)
(***************************************************************************)
Alphabet == {"4", "0", "-", ".", "e", "x", "a", " "}

Strings == UNION {[1 .. n -> Alphabet] : n \in 0 .. MaxStringLen}

PipeInputs == {Str(s) : s \in Strings} \cup {Undefined, Null, Num(4), Obj("body")}

\* Instances of subclasses of AbstractParsePipe: each validate with each
\* parse, constructed with the defaults or with a status and message.
AllPipes ==
    {AbstractParsePipe(v, p, DEFAULT_FAIL_STATUS_CODE, DEFAULT_RESPONSE_MESSAGE) :
        v \in {"ParseDefaultPipe", "IntPipe"}, p \in {"ParseDefaultPipe", "IntPipe"}}
    \cup
    {AbstractParsePipe(v, p, 422, "Unprocessable Entity") :
        v \in {"ParseDefaultPipe", "IntPipe"}, p \in {"ParseDefaultPipe", "IntPipe"}}

\* Mutant: the result of validate is not looked at.
PipeValidate_Ignore ==
    /\ pcall.pc = "called"
    /\ pcall' = [pcall EXCEPT !.trace = Append(pcall.trace, "validate"), !.pc = "validated"]
    /\ UNCHANGED mainVars

\* if (!this.validate(value))
PipeValidate ==
    /\ pcall.pc = "called"
    /\ pcall' = [pcall EXCEPT
                    !.trace = Append(pcall.trace, "validate"),
                    !.pc = IF Validate(pcall.pipe, pcall.value) THEN "validated" ELSE "rejected"]
    /\ UNCHANGED mainVars

\* throw new ValidatePipeError(this.statusCode, this.message)
PipeThrow ==
    /\ pcall.pc = "rejected"
    /\ pcall' = [pcall EXCEPT !.result = Thrown(PipeFailure(pcall.pipe)), !.pc = "thrown"]
    /\ UNCHANGED mainVars

\* return this.parse(value)
PipeParse ==
    /\ pcall.pc = "validated"
    /\ pcall' = [pcall EXCEPT
                    !.trace = Append(pcall.trace, "parse"),
                    !.result = Returned(Parse(pcall.pipe, pcall.value)),
                    !.pc = "returned"]
    /\ UNCHANGED mainVars

InitPipe ==
    /\ InitController(0)
    /\ \E p \in AllPipes, v \in PipeInputs :
          pcall = [pc |-> "called", pipe |-> p, value |-> v, trace |-> <<>>,
                   result |-> NoOutcome]

NextPipe == PipeValidate \/ PipeThrow \/ PipeParse

SpecPipe == InitPipe /\ [][NextPipe]_vars

(***************************************************************************)
(* One call of HttpMethod.of (src/src/http.ts).                            *)
(***************************************************************************)
LowerCase == <<"a", "b", "c", "d", "e", "f", "g", "h", "i", "j", "k", "l", "m",
               "n", "o", "p", "q", "r", "s", "t", "u", "v", "w", "x", "y", "z">>
UpperCase == <<"A", "B", "C", "D", "E", "F", "G", "H", "I", "J", "K", "L", "M",
               "N", "O", "P", "Q", "R", "S", "T", "U", "V", "W", "X", "Y", "Z">>

\* The characters of the name of a member of HttpMethod.
MethodChars(m) ==
    CASE m = "GET" -> <<"G", "E", "T">>
      [] m = "PUT" -> <<"P", "U", "T">>
      [] m = "PATCH" -> <<"P", "A", "T", "C", "H">>
      [] m = "POST" -> <<"P", "O", "S", "T">>
      [] m = "DELETE" -> <<"D", "E", "L", "E", "T", "E">>
      [] m = "HEAD" -> <<"H", "E", "A", "D">>
      [] m = "CONNECT" -> <<"C", "O", "N", "N", "E", "C", "T">>
      [] m = "OPTIONS" -> <<"O", "P", "T", "I", "O", "N", "S">>
      [] m = "TRACE" -> <<"T", "R", "A", "C", "E">>

\* String.prototype.toUpperCase, on the characters used here.
ToUpperCase(chars) ==
    [k \in 1 .. Len(chars) |->
        IF \E j \in 1 .. Len(LowerCase) : LowerCase[j] = chars[k]
        THEN UpperCase[CHOOSE j \in 1 .. Len(LowerCase) : LowerCase[j] = chars[k]]
        ELSE chars[k]]

\* method.replace(/\t/g, '')
RemoveTabs(chars) == SelectSeq(chars, LAMBDA ch : ch # "\t")

\* Mutant: the tab characters are not removed.
of_KeepTabs(method) ==
    LET name == ToUpperCase(method)
    IN  IF \E m \in HttpMethod : name = MethodChars(m)
        THEN Returned(CHOOSE m \in HttpMethod : name = MethodChars(m))
        ELSE Thrown(ExpressHelperError(405, "Unsupported Http Method"))

\* HttpMethod.of: the switch over the normalised name.
of(method) ==
    LET name == ToUpperCase(RemoveTabs(method))
    IN  CASE name = <<"G", "E", "T">> -> Returned("GET")
          [] name = <<"P", "O", "S", "T">> -> Returned("POST")
          [] name = <<"D", "E", "L", "E", "T", "E">> -> Returned("DELETE")
          [] name = <<"P", "U", "T">> -> Returned("PUT")
          [] name = <<"P", "A", "T", "C", "H">> -> Returned("PATCH")
          [] name = <<"H", "E", "A", "D">> -> Returned("HEAD")
          [] name = <<"C", "O", "N", "N", "E", "C", "T">> -> Returned("CONNECT")
          [] name = <<"O", "P", "T", "I", "O", "N", "S">> -> Returned("OPTIONS")
          [] name = <<"T", "R", "A", "C", "E">> -> Returned("TRACE")
          [] OTHER -> Thrown(ExpressHelperError(405, "Unsupported Http Method"))

\* String.prototype.toLowerCase, to build inputs.
ToLowerCase(chars) ==
    [k \in 1 .. Len(chars) |->
        IF \E j \in 1 .. Len(UpperCase) : UpperCase[j] = chars[k]
        THEN LowerCase[CHOOSE j \in 1 .. Len(UpperCase) : UpperCase[j] = chars[k]]
        ELSE chars[k]]

\* The spellings of a name: upper case, lower case, capitalised.
Spellings(chars) ==
    {chars, ToLowerCase(chars), <<Head(chars)>> \o ToLowerCase(Tail(chars))}

InsertAt(chars, k, ch) == SubSeq(chars, 1, k) \o <<ch>> \o SubSeq(chars, k + 1, Len(chars))

\* Names handed to HttpMethod.of: every spelling of every member, as it is,
\* with a tab, a space or a letter put in anywhere, and with its first
\* character dropped; and the strings over Alphabet.
OfInputs ==
    LET spelled == UNION {Spellings(MethodChars(m)) : m \in HttpMethod}
    IN  spelled
        \cup UNION {{InsertAt(n, k, ch) : k \in 0 .. Len(n), ch \in {"\t", " ", "s"}} :
                        n \in spelled}
        \cup {Tail(n) : n \in spelled}
        \cup {<<"\t">> \o InsertAt(n, Len(n), "\t") : n \in spelled}
        \cup Strings

OfSwitch ==
    /\ pcall.pc = "called"
    /\ pcall' = [pcall EXCEPT
                    !.result = of(pcall.method),
                    !.pc = IF of(pcall.method).t = "thrown" THEN "thrown" ELSE "returned"]
    /\ UNCHANGED mainVars

InitOf ==
    /\ InitController(0)
    /\ \E method \in OfInputs :
          pcall = [pc |-> "called", method |-> method, result |-> NoOutcome]

NextOf == OfSwitch

SpecOf == InitOf /\ [][NextOf]_vars

(***************************************************************************)
(* Properties.                                                             *)
(***************************************************************************)
\* The adapter has called the resolved handler for the current request.
Resolved == rq.pc \in {"awaiting", "translator", "done"} /\ rq.outcome # NoOutcome

\* The adapter has finished with the current request.
Adapted == rq.pc \in {"translator", "done"} /\ rq.outcome # NoOutcome

\* The current request went through the adapter and is over.
Over == rq.pc = "done" /\ rq.outcome # NoOutcome

\* The handler method sent the response itself.
HandlerAnswered == rq.calls # <<>> /\ rq.calls[1].by = "handler"

\* The calls the adapter made to send the response.
AdapterCalls == {rq.calls[k] : k \in {j \in 1 .. Len(rq.calls) : rq.calls[j].by = "adapter"}}

MessageBody(m) == [t |-> "object", message |-> m]

\* The status HttpCode declared, 200 without it.
ConfiguredStatus == IF metadata.statusCode = Undefined THEN 200 ELSE metadata.statusCode.int

BodyAccepted == \A i \in Declared("Body") : Validate(decl[i].pipe, rq.body)

Items(list) == IF list = Undefined THEN <<>> ELSE list.items

ItemMissing(m, source) == source[m.value] = Undefined

ItemRejected(m, source) ==
    source[m.value] # Undefined /\ ~Validate(m.validatePipe, source[m.value])

ItemFails(m, source) == ItemMissing(m, source) \/ ItemRejected(m, source)

\* The position of the first binding of the list that fails, 0 if none does.
FirstFailing(items, source) ==
    IF \E j \in 1 .. Len(items) : ItemFails(items[j], source)
    THEN CHOOSE j \in 1 .. Len(items) :
            /\ ItemFails(items[j], source)
            /\ \A k \in 1 .. (j - 1) : ~ItemFails(items[k], source)
    ELSE 0

PathItems == Items(metadata.pathParamArgument)
QueryItems == Items(metadata.queryParamArgument)

\* C1: when every path and query binding of the method finds its name in the
\* request and its pipe accepts the value, the handler is called (unless the
\* Body pipe rejects the body) and each bound index holds its own pipe's
\* parse of its own value, in whatever order the decorators were applied.
C1_ParamsBound ==
    (/\ Resolved
     /\ Declared("Param") \cup Declared("Query") # {}
     /\ \A i \in Declared("Param") :
           /\ rq.params[decl[i].value] # Undefined
           /\ Validate(decl[i].pipe, rq.params[decl[i].value])
     /\ \A i \in Declared("Query") :
           /\ rq.query[decl[i].value] # Undefined
           /\ Validate(decl[i].pipe, rq.query[decl[i].value]))
    => /\ BodyAccepted => rq.invoked
       /\ rq.invoked =>
             /\ \A i \in Declared("Param") :
                   rq.args[i + 1] = Parse(decl[i].pipe, rq.params[decl[i].value])
             /\ \A i \in Declared("Query") :
                   rq.args[i + 1] = Parse(decl[i].pipe, rq.query[decl[i].value])

\* Param("name", identity) at 0 and Param("id", int) at 1, applied last
\* parameter first, and the path variables foo and 4: the handler gets ("foo", 4).
C1_Witness ==
    /\ Resolved
    /\ rq.invoked
    /\ arity = 2
    /\ decl[0] = [t |-> "Param", value |-> "name", pipe |-> ParseEmptyPipe]
    /\ decl[1] = [t |-> "Param", value |-> "id", pipe |-> ParseIntPipe]
    /\ metadata.pathParamArgument.items[1].paramIndex = 1
    /\ rq.params["name"] = Str(<<"f", "o", "o">>)
    /\ rq.params["id"] = Str(<<"4">>)
    /\ rq.args = <<Str(<<"f", "o", "o">>), Num(4)>>

FullCookieHeader == CookieHeader(<<Segment("sessionId"), Segment("key")>>)

\* C2: a request with Cookie: sessionId=abc; key=xyz for the method written
\* with Cookie("sessionId") at 0 and Cookie("key") at 1 ends with the handler
\* called with ("abc", "xyz").
C2_CookiesBound ==
    (/\ rq.pc = "done"
     /\ arity = 2
     /\ decl[0] = [t |-> "Cookie", value |-> "sessionId", pipe |-> ParseEmptyPipe]
     /\ decl[1] = [t |-> "Cookie", value |-> "key", pipe |-> ParseEmptyPipe]
     /\ rq.cookies = Undefined
     /\ rq.cookieHeader = FullCookieHeader)
    => /\ rq.invoked
       /\ rq.args = <<Str(<<"a", "b", "c">>), Str(<<"x", "y", "z">>)>>

AnyKeyMissing ==
    \/ \E i \in Declared("Param") : rq.params[decl[i].value] = Undefined
    \/ \E i \in Declared("Query") : rq.query[decl[i].value] = Undefined

BadRequestAnswer == Call("endpoint", 400, "json", MessageBody("Bad Request"))

\* C3 as stated: a request that lacks the name of a path or query binding
\* and reached the adapter is answered 400 {"message":"Bad Request"}.
C3_MissingKeyAlways400 == (Over /\ AnyKeyMissing) => rq.calls = <<BadRequestAnswer>>

\* The first step of the resolution to fail is the lookup of an absent name.
MissingKeyFailsFirst ==
    /\ BodyAccepted
    /\ LET fp == FirstFailing(PathItems, rq.params)
           fq == FirstFailing(QueryItems, rq.query)
       IN  \/ fp # 0 /\ ItemMissing(PathItems[fp], rq.params)
           \/ fp = 0 /\ fq # 0 /\ ItemMissing(QueryItems[fq], rq.query)

\* C3 amended: when the lookup of an absent path or query name is the first
\* step of the resolution to fail, the handler is not called and the request
\* is answered 400 {"message":"Bad Request"}.
C3_MissingKeyFirst400 ==
    (Over /\ MissingKeyFailsFirst) => ~rq.invoked /\ rq.calls = <<BadRequestAnswer>>

\* Query("name") with no name in the query string, answered 400.
C3_Witness ==
    /\ Over
    /\ MissingKeyFailsFirst
    /\ Declared("Query") # {}
    /\ Declared("Param") = {}
    /\ rq.calls = <<BadRequestAnswer>>

\* The cookie k is neither in request.cookies nor in the Cookie header.
CookieAbsent(k) ==
    /\ rq.cookies = Undefined \/ rq.cookies.jar[k] = Undefined
    /\ \/ rq.cookieHeader = Undefined
       \/ \A j \in 1 .. Len(rq.cookieHeader.segments) : rq.cookieHeader.segments[j].key # k

\* C4: a request for a method whose only bindings are Cookie bindings, one of
\* them naming a cookie the request does not carry, ends with
\* ExpressHelperError(400, "Bad Request") handed on and the handler not called.
C4_MissingCookieRejected ==
    (/\ rq.pc = "done"
     /\ rq.route = Undefined \/ rq.outcome # NoOutcome
     /\ \A i \in ParamIndexes : i < arity => decl[i].t = "Cookie"
     /\ \E i \in Declared("Cookie") : CookieAbsent(decl[i].value))
    => /\ ~rq.invoked
       /\ rq.next = <<ExpressHelperError(400, "Bad Request")>>

\* C5: when a RestController handler returns a value other than null and
\* undefined (and did not send the response itself), the answer is that value
\* as JSON with the configured status.
C5_DefinedValueAsJson ==
    (/\ Over
     /\ rq.route.adapter = "RestController"
     /\ rq.invoked
     /\ rq.outcome.t = "returned"
     /\ rq.outcome.value \notin {Undefined, Null}
     /\ ~HandlerAnswered)
    => rq.calls = <<Call("adapter", ConfiguredStatus, "json", rq.outcome.value)>>

NoContent == Call("adapter", 204, "send", Undefined)

\* C6: when a RestController handler returns undefined, the adapter's one
\* call is status(204).send() and never json(); unless the handler sent the
\* response itself, that is the answer and no error is handed on.
C6_UndefinedIsNoContent ==
    (/\ Adapted
     /\ rq.route.adapter = "RestController"
     /\ rq.invoked
     /\ rq.outcome = Returned(Undefined))
    => /\ AdapterCalls = {NoContent}
       /\ ~HandlerAnswered => rq.calls = <<NoContent>> /\ rq.next = <<>>

C6_Witness ==
    /\ Over
    /\ rq.route.adapter = "RestController"
    /\ rq.invoked
    /\ rq.outcome = Returned(Undefined)
    /\ metadata.statusCode = Num(201)
    /\ rq.calls = <<NoContent>>

\* C7: when a Controller handler returns a string, the adapter's one call is
\* sendFile of that name under the views directory with the configured
\* status; unless the handler sent the response itself, that is the answer
\* and no error is handed on.
C7_ViewServed ==
    (/\ Adapted
     /\ rq.route.adapter = "Controller"
     /\ rq.invoked
     /\ rq.outcome.t = "returned"
     /\ rq.outcome.value.t = "string")
    => LET file == Call("adapter", ConfiguredStatus, "sendFile",
                        [t |-> "path", root |-> ViewsDir, name |-> rq.outcome.value.chars])
       IN  /\ AdapterCalls = {file}
           /\ ~HandlerAnswered => rq.calls = <<file>> /\ rq.next = <<>>

C7_Witness ==
    /\ Over
    /\ rq.route.adapter = "Controller"
    /\ rq.outcome = Returned(Str(ViewName))
    /\ metadata.statusCode = Num(201)
    /\ rq.calls = <<Call("adapter", 201, "sendFile",
                         [t |-> "path", root |-> ViewsDir, name |-> ViewName])>>

InvalidViewPathType == ExpressHelperError(400, "Invalid View Path Type")

\* C8: when a Controller handler returns a value that is not a string, the
\* adapter serves no file and hands ExpressHelperError(400, "Invalid View Path
\* Type") to next; unless the handler sent the response itself, the answer is
\* 400 {"message":"Invalid View Path Type"}.
C8_NonStringView ==
    (/\ Adapted
     /\ rq.route.adapter = "Controller"
     /\ rq.invoked
     /\ rq.outcome.t = "returned"
     /\ rq.outcome.value.t # "string")
    => /\ AdapterCalls = {}
       /\ rq.next = <<InvalidViewPathType>>
       /\ (rq.pc = "done" /\ ~HandlerAnswered) =>
             rq.calls = <<Call("endpoint", 400, "json", MessageBody("Invalid View Path Type"))>>

C8_Witness ==
    /\ Over
    /\ rq.route.adapter = "Controller"
    /\ rq.outcome = Returned(Undefined)
    /\ rq.next = <<InvalidViewPathType>>
    /\ rq.calls = <<Call("endpoint", 400, "json", MessageBody("Invalid View Path Type"))>>

ConstructedWithDefaults(p) == p.statusCode = 400 /\ p.message = "Bad Request"

\* C9: a finished call of pipe(x) on the pipe P returned P.parse(x) if
\* P.validate(x) holds, and otherwise threw a ValidatePipeError with P's
\* status code and message (400, "Bad Request" for a pipe built with the
\* defaults).
C9_PipeContract ==
    pcall.pc \in {"returned", "thrown"} =>
        IF Validate(pcall.pipe, pcall.value)
        THEN pcall.result = Returned(Parse(pcall.pipe, pcall.value))
        ELSE /\ pcall.result.t = "thrown"
             /\ pcall.result.error.class = "ValidatePipeError"
             /\ pcall.result.error.statusCode = pcall.pipe.statusCode
             /\ pcall.result.error.message = pcall.pipe.message
             /\ pcall.pipe \in {ParseEmptyPipe, ParseIntPipe} =>
                   /\ pcall.result.error.statusCode = 400
                   /\ pcall.result.error.message = "Bad Request"

\* A subclass built with 422 rejects "a" and throws with 422.
C9_Witness ==
    /\ pcall.pc = "thrown"
    /\ pcall.value = Str(<<"a">>)
    /\ pcall.pipe.statusCode = 422
    /\ pcall.result.error.statusCode = 422

\* The pipe that rejects its value in the resolution of the current request:
\* the Body pipe, else the pipe of the first path binding to fail, else that
\* of the first query binding to fail.  Empty if no pipe rejects.
RejectingPipes ==
    IF ~BodyAccepted
    THEN {decl[i].pipe : i \in Declared("Body")}
    ELSE LET fp == FirstFailing(PathItems, rq.params)
             fq == FirstFailing(QueryItems, rq.query)
         IN  IF fp # 0
             THEN IF ItemRejected(PathItems[fp], rq.params)
                  THEN {PathItems[fp].validatePipe} ELSE {}
             ELSE IF fq # 0 /\ ItemRejected(QueryItems[fq], rq.query)
                  THEN {QueryItems[fq].validatePipe} ELSE {}

\* C10: when the pipe of a bound parameter rejects its value, the handler is
\* not called and the request is answered with that pipe's status code and
\* the JSON body {message: that pipe's message}; the error is neither logged
\* nor rethrown.
C10_PipeFailureAnswered ==
    Over =>
        \A p \in RejectingPipes :
            /\ ~rq.invoked
            /\ rq.calls = <<Call("endpoint", p.statusCode, "json", MessageBody(p.message))>>
            /\ ~rq.logged
            /\ rq.escaped = Undefined

\* Param("id") with a pipe built with 422 and the path variable foo.
C10_Witness ==
    /\ Over
    /\ RejectingPipes = {UserPipe}
    /\ Declared("Param") # {}
    /\ Declared("Body") = {}
    /\ rq.calls = <<Call("endpoint", 422, "json", MessageBody("Unprocessable Entity"))>>

\* The error-handling middleware has run for the current request, on the
\* error the adapter handed to next.
Translated == rq.pc = "done" /\ rq.next # <<>>

Forwarded == rq.next[Len(rq.next)]

\* An ExpressHelperError or an instance of a subclass of it.
DomainError(e) == e.t = "error" /\ e.class \in {"ExpressHelperError", "ValidatePipeError"}

\* The calls that sent, or tried to send, the response before the
\* error-handling middleware ran.
CallsBefore == SelectSeq(rq.calls, LAMBDA c : c.by # "endpoint")

CallsOfEndpoint == SelectSeq(rq.calls, LAMBDA c : c.by = "endpoint")

\* C11: given an ExpressHelperError or a subclass instance, the middleware
\* makes exactly one call, status(err.statusCode).json({message}), does not
\* log the error and does not rethrow it; unless the response had been sent
\* before, that call is the response and nothing is thrown.
C11_DomainErrorAnswered ==
    (Translated /\ DomainError(Forwarded)) =>
        /\ CallsOfEndpoint = <<Call("endpoint", Forwarded.statusCode, "json",
                                    MessageBody(Forwarded.message))>>
        /\ ~rq.logged
        /\ rq.escaped # Forwarded
        /\ CallsBefore = <<>> => (rq.escaped = Undefined /\ Len(rq.calls) = 1)

\* The handler throws ExpressHelperError(404, "Not Found").
C11_Witness ==
    /\ Translated
    /\ rq.invoked
    /\ Forwarded = ExpressHelperError(404, "Not Found")
    /\ rq.calls = <<Call("endpoint", 404, "json", MessageBody("Not Found"))>>
    /\ rq.escaped = Undefined

\* C12: given any value that is not a domain error, the middleware logs it,
\* answers status 500 with an empty body and rethrows the same value.
C12_GenericErrorSurfaced ==
    (Translated /\ ~DomainError(Forwarded) /\ CallsBefore = <<>>) =>
        /\ rq.logged
        /\ rq.calls = <<Call("endpoint", 500, "send", Undefined)>>
        /\ rq.escaped = Forwarded

\* C13: in both adapters an error thrown by argument resolution or by the
\* handler method is handed to next exactly once, and the adapter makes no
\* call that sends a response for that request.
C13_ErrorForwardedOnce ==
    (Adapted /\ rq.outcome.t = "thrown") =>
        /\ rq.next = <<rq.outcome.error>>
        /\ AdapterCalls = {}

\* The handler of a view-style route throws an Error.
C13_Witness ==
    /\ Adapted
    /\ rq.route.adapter = "Controller"
    /\ rq.invoked
    /\ rq.outcome = Thrown(JsError("Error"))
    /\ rq.next = <<JsError("Error")>>

\* The guard of the current request's route has passed control on.
GuardPassed == rq.user \in Principals

GuardRefused == rq.calls # <<>> /\ rq.calls[1].by = "guard"

\* C14: a route whose method carries UseGuard is registered with the guard
\* ahead of the adapter; resolution and the handler start only after the
\* guard called next, and never run when the guard answered itself.
C14_GuardFirst ==
    /\ metadata.auth # Undefined =>
          \A k \in 1 .. Len(router) : router[k].auth = metadata.auth
    /\ (rq.pc # "idle" /\ metadata.auth # Undefined /\ rq.route # Undefined) =>
          /\ (rq.outcome # NoOutcome \/ rq.invoked) => GuardPassed
          /\ rq.pc = "adapter" => GuardPassed
          /\ GuardRefused => (rq.outcome = NoOutcome /\ ~rq.invoked /\ rq.pc = "done")

\* A guarded handler has run after the guard set the principal.
C14_Witness ==
    /\ rq.pc = "awaiting"
    /\ rq.route.auth # Undefined
    /\ rq.invoked
    /\ GuardPassed

\* The route decorator wrote url and exactly the method m.
MappedTo(m) == metadata.request = RequestMetadata(Url, <<m>>)

\* C15: the route decorator of HTTP method M records exactly M; once the
\* class decorator has run the router holds exactly one entry for the
\* method, under M and the path, a request with method M to the path is
\* dispatched to it, and a request with any other method finds no route.
C15_OneEntryPerVerb ==
    /\ [][/\ Get(Url) => MappedTo("GET")'
          /\ Post(Url) => MappedTo("POST")'
          /\ Put(Url) => MappedTo("PUT")'
          /\ Patch(Url) => MappedTo("PATCH")'
          /\ Delete(Url) => MappedTo("DELETE")'
          /\ HeadMapping(Url) => MappedTo("HEAD")'
          /\ Options(Url) => MappedTo("OPTIONS")'
          /\ Trace(Url) => MappedTo("TRACE")'
          /\ CONNECT(Url) => MappedTo("CONNECT")']_vars
    /\ [](\A m \in HttpMethod :
            (phase = "registered" /\ MappedTo(m)) =>
                /\ Len(router) = 1
                /\ router[1].method = m
                /\ router[1].path = Url
                /\ rq.pc # "idle" =>
                      /\ rq.route # Undefined <=> rq.method = m
                      /\ rq.route # Undefined => rq.route = router[1]
                      /\ rq.route = Undefined =>
                            rq.calls = <<Call("router", 404, "send", Undefined)>>)

\* A TRACE request has reached the handler of a method declared with Trace.
C15_Witness ==
    /\ phase = "registered"
    /\ MappedTo("TRACE")
    /\ rq.pc = "awaiting"
    /\ rq.method = "TRACE"
    /\ rq.invoked

\* C16: after the class decorator ran on a method declared with
\* RequestMapping (the one decorator that records several methods), the
\* router holds exactly one entry for every member of the enumeration
\* HttpMethod, each under the url.
C16_AllMethodsMapped ==
    (phase = "registered" /\ metadata.request # Undefined
        /\ Len(metadata.request.methods) > 1) =>
        \A m \in HttpMethod :
            Cardinality({k \in 1 .. Len(router) :
                            router[k].method = m /\ router[k].path = Url}) = 1

\* The handler returned and the adapter has acted on the returned value.
Returned1 == Adapted /\ rq.outcome.t = "returned"

C17_OfTotal ==
    pcall.pc # "called" =>
        LET name == ToUpperCase(RemoveTabs(pcall.method))
        IN  IF \E m \in HttpMethod : name = MethodChars(m)
            THEN /\ pcall.pc = "returned"
                 /\ \E m \in HttpMethod :
                       name = MethodChars(m) /\ pcall.result = Returned(m)
            ELSE /\ pcall.pc = "thrown"
                 /\ pcall.result.t = "thrown"
                 /\ DomainError(pcall.result.error)
                 /\ pcall.result.error.statusCode = 405

\* of("opt\tions") returned OPTIONS.
C17_Witness ==
    /\ pcall.pc = "returned"
    /\ pcall.method = <<"o", "p", "t", "\t", "i", "o", "n", "s">>
    /\ pcall.result = Returned("OPTIONS")

\* The requests in flight whose arguments have been resolved.
InFlight == {r \in {rq} \cup {waiting[k] : k \in 1 .. Len(waiting)} :
                r.pc # "idle" /\ r.outcome # NoOutcome}

\* What resolution gives for the request alone, on an array that no other
\* request has touched.
Alone(r) == Resolve(resolver, NewArray(arity), r)

\* C19: whatever requests came before or are in flight, resolution of a
\* request fails exactly when it fails for the request alone and with the
\* same error, and otherwise the handler receives the arguments it receives
\* for the request alone.
C19_ResolvedIndependently ==
    \A r \in InFlight :
        IF Alone(r).thrown # Undefined
        THEN ~r.invoked /\ r.outcome = Thrown(Alone(r).thrown)
        ELSE r.invoked /\ r.args = Alone(r).args.slots

\* The second request is resolved while the first still waits for its
\* handler; the first carried the path variable, the second does not.
C19_Witness ==
    /\ waiting # <<>>
    /\ waiting[1].pc = "awaiting"
    /\ waiting[1].invoked
    /\ rq.pc = "awaiting"
    /\ ~rq.invoked
    /\ \E k \in Keys : waiting[1].params[k] # Undefined /\ rq.params[k] = Undefined

\* C20: for a method whose bindings are Cookie bindings, with or without a
\* Body binding, and a request that carries every named cookie (in the jar or
\* in the Cookie header) and a body the Body pipe accepts, the handler is
\* called with each cookie's value at the index of its own binding and the
\* parsed body at the index of the Body binding.
C20_CookieOwnSlot ==
    (/\ Resolved
     /\ Declared("Cookie") # {}
     /\ \A i \in ParamIndexes : i < arity => decl[i].t \in {"Cookie", "Body"}
     /\ BodyAccepted
     /\ \A i \in Declared("Cookie") : ~CookieAbsent(decl[i].value))
    => /\ rq.invoked
       /\ \A i \in Declared("Cookie") : rq.args[i + 1] = Str(CookieString(decl[i].value))
       /\ \A i \in Declared("Body") : rq.args[i + 1] = Parse(decl[i].pipe, rq.body)

\* The handler method has been called for the current request.
Invoked == rq.pc # "idle" /\ rq.invoked

\* C21: the handler is called with the request object of the current
\* request at the index of the Req binding and the response object of the
\* current request at the index of the Res binding.
C21_LiveObjectsBound ==
    Invoked =>
        /\ \A i \in Declared("Req") : rq.args[i + 1] = [t |-> "request", id |-> rq.id]
        /\ \A i \in Declared("Res") : rq.args[i + 1] = [t |-> "response", id |-> rq.id]

\* The second request to a method with Res at 0 and Req at 1.
C21_Witness ==
    /\ Invoked
    /\ rq.id = 2
    /\ decl[0].t = "Res"
    /\ decl[1].t = "Req"
    /\ rq.args = <<[t |-> "response", id |-> 2], [t |-> "request", id |-> 2]>>

\* No binding other than AuthenticatedUser fails for the current request.
OthersResolve ==
    /\ BodyAccepted
    /\ FirstFailing(PathItems, rq.params) = 0
    /\ FirstFailing(QueryItems, rq.query) = 0

\* C25: the index of the AuthenticatedUser binding receives request.user,
\* which is what the guard set if the route has one and undefined otherwise;
\* the handler is called whether or not there is a principal.
C25_PrincipalBound ==
    (Resolved /\ Declared("AuthenticatedUser") # {}) =>
        /\ rq.route.auth = Undefined => rq.user = Undefined
        /\ rq.route.auth # Undefined => rq.user \in Principals
        /\ OthersResolve => rq.invoked
        /\ rq.invoked => \A i \in Declared("AuthenticatedUser") : rq.args[i + 1] = rq.user

\* No guard: the handler is called with undefined for the principal.
C25_Witness ==
    /\ Resolved
    /\ rq.invoked
    /\ rq.route.auth = Undefined
    /\ decl[0].t = "AuthenticatedUser"
    /\ rq.args[1] = Undefined

\* What the binding written on parameter i gives for the current request;
\* a Cookie binding is one the resolver does not see.
Produced(i) ==
    CASE decl[i].t = "Req" -> [t |-> "request", id |-> rq.id]
      [] decl[i].t = "Res" -> [t |-> "response", id |-> rq.id]
      [] decl[i].t = "Body" -> Parse(decl[i].pipe, rq.body)
      [] decl[i].t = "Param" -> Parse(decl[i].pipe, rq.params[decl[i].value])
      [] decl[i].t = "Query" -> Parse(decl[i].pipe, rq.query[decl[i].value])
      [] OTHER -> Undefined

\* C30: without an AuthenticatedUser binding the principal is in no
\* positional argument: every index holds what its own binding gives, or
\* undefined when it has none.
C30_PrincipalNotPlaced ==
    (Invoked /\ Declared("AuthenticatedUser") = {}) =>
        /\ Len(rq.args) = arity
        /\ \A i \in ParamIndexes : i < arity => rq.args[i + 1] = Produced(i)

\* The guard set a principal, no parameter asks for it, and the handler was
\* called with an unbound first parameter.
C30_Witness ==
    /\ Invoked
    /\ Declared("AuthenticatedUser") = {}
    /\ rq.user \in Principals
    /\ arity = 2
    /\ decl[0] = NoDecorator
    /\ rq.args[1] = Undefined
    /\ resolvedArguments.undefinedProperty = rq.user

\* A decimal integer literal: digits, with a minus sign in front at most.
IntegerLiteral(chars) ==
    /\ chars # <<>>
    /\ LET ds == IF Head(chars) = "-" THEN Tail(chars) ELSE chars
       IN  ds # <<>> /\ \A k \in 1 .. Len(ds) : ds[k] \in DecDigits

IntegerValue(chars) ==
    IF Head(chars) = "-" THEN 0 - DigitsValue(Tail(chars), 10) ELSE DigitsValue(chars, 10)

\* C22: whatever string the integer pipe accepts, it parses to a number,
\* never NaN; a decimal integer literal is accepted and parsed to its value.
C22_IntPipeInteger ==
    (pcall.pc \in {"returned", "thrown"} /\ pcall.pipe = ParseIntPipe
        /\ pcall.value.t = "string") =>
        /\ pcall.pc = "returned" => pcall.result.value.t = "number"
        /\ IntegerLiteral(pcall.value.chars) =>
              pcall.result = Returned(Num(IntegerValue(pcall.value.chars)))

\* C24: in every call of pipe, validate is called first and once; parse is
\* called only after it and only when validate returned true, and a call
\* that throws has not called parse.
C24_ValidateBeforeParse ==
    /\ pcall.trace \in {<<>>, <<"validate">>, <<"validate", "parse">>}
    /\ pcall.trace = <<"validate", "parse">> => Validate(pcall.pipe, pcall.value)
    /\ pcall.pc \in {"rejected", "thrown"} =>
          pcall.trace = <<"validate">> /\ ~Validate(pcall.pipe, pcall.value)
    /\ pcall.pc = "returned" => pcall.trace = <<"validate", "parse">>

\* The integer pipe rejected "a": validate was called, parse was not.
C24_Witness ==
    /\ pcall.pc = "thrown"
    /\ pcall.pipe = ParseIntPipe
    /\ pcall.value = Str(<<"a">>)
    /\ pcall.trace = <<"validate">>

\* Every cookie a Cookie binding names is carried by the current request.
CookiesPresent == \A i \in Declared("Cookie") : ~CookieAbsent(decl[i].value)

C26_FreshArray ==
    rq.pc = "adapter" => resolvedArguments = NewArray(arity)

\* C27: a request that was dispatched to a registered route and is over has
\* been answered.
C27_EveryRequestAnswered ==
    (rq.pc = "done" /\ rq.route # Undefined) => rq.calls # <<>>

\* C28: at most one call sends the response of a request, and when the
\* handler sent it the adapter makes none.
C28_SentOnce ==
    rq.pc # "idle" =>
        /\ Len(rq.calls) <= 1
        /\ HandlerAnswered => AdapterCalls = {}

\* The bindings of the method that fail for the current request.
FailingBody == {i \in Declared("Body") : ~Validate(decl[i].pipe, rq.body)}

FailingPath == {j \in 1 .. Len(PathItems) : ItemFails(PathItems[j], rq.params)}

FailingQuery == {j \in 1 .. Len(QueryItems) : ItemFails(QueryItems[j], rq.query)}

FailingCookies == {i \in Declared("Cookie") : CookieAbsent(decl[i].value)}

\* The error of a path or query binding that fails.
ItemError(m, source) ==
    IF ItemMissing(m, source) THEN ExpressHelperError(400, "Bad Request")
    ELSE ValidatePipeError(m.validatePipe.statusCode, m.validatePipe.message)

\* The error of the first step to fail, in the order Body, path, query,
\* cookie.
FirstError ==
    IF FailingBody # {}
    THEN LET i == CHOOSE i \in FailingBody : TRUE
         IN  ValidatePipeError(decl[i].pipe.statusCode, decl[i].pipe.message)
    ELSE IF FailingPath # {}
    THEN ItemError(PathItems[FirstFailing(PathItems, rq.params)], rq.params)
    ELSE IF FailingQuery # {}
    THEN ItemError(QueryItems[FirstFailing(QueryItems, rq.query)], rq.query)
    ELSE ExpressHelperError(400, "Bad Request")

====
